---- MODULE Spec2Model ----
(***************************************************************************)
(* Model of szeider/powersum: the exhaustive feasibility engine            *)
(* (exhaustive_verify.py), the decomposition verifier and its parser       *)
(* (adf_verifier.py), the CP-SAT constraint system (cpsat_solver.py) and   *)
(* the resumable range sweep (search_sequential.py).                       *)
(***************************************************************************)
EXTENDS Integers, Sequences, FiniteSets, TLC

VARIABLES
    \* exhaustive_search(n, k, max_size)
    n, k, max_size_arg, max_size, pc, outer_i, singleton_sizes, ranges, inner_i,
    intersection_sizes, sizes, count, result,
    \* adf_verifier.compute_union_size(sets)
    vsets, vpc, vresult,
    \* parse_adf(filename)
    file, ppc, pn, pk, psets, expected_set_id,
    \* search_range(k, start_n, end_n)
    spc, sn, found, checked, total_checks, disk, runs

engineVars ==
    <<n, k, max_size_arg, max_size, pc, outer_i, singleton_sizes, ranges, inner_i,
      intersection_sizes, sizes, count, result>>
verifierVars == <<vsets, vpc, vresult>>
parseVars == <<file, ppc, pn, pk, psets, expected_set_id>>
sweepVars == <<spc, sn, found, checked, total_checks, disk, runs>>
vars == <<engineVars, verifierVars, parseVars, sweepVars>>

----------------------------------------------------------------------------
(* Bounds of the model *)

MaxN == 6
MaxK == 3
MaxSize == 1
MaxSets == 3
MaxLabels == 3
MaxLines == 4
MaxSweepN == 5
MaxRuns == 3

----------------------------------------------------------------------------
(* Integer helpers: Python's int.bit_length, bin(x).count('1'), & *)

RECURSIVE bit_length(_)
bit_length(x) == IF x <= 0 THEN 0 ELSE 1 + bit_length(x \div 2)

RECURSIVE popcount(_)
popcount(x) == IF x <= 0 THEN 0 ELSE (x % 2) + popcount(x \div 2)

RECURSIVE BitAnd(_, _)
BitAnd(a, b) ==
    IF a = 0 \/ b = 0 THEN 0
    ELSE (a % 2) * (b % 2) + 2 * BitAnd(a \div 2, b \div 2)

Min(a, b) == IF a <= b THEN a ELSE b

\* masks = list(range(1, 2**k))
get_subset_masks(kk) == 1 .. (2^kk - 1)

\* singleton_masks = [1 << i for i in range(k)]
singleton_masks(kk) == { 2^i : i \in 0 .. (kk - 1) }

\* mask1 != mask2 and (mask1 & mask2) == mask2
ProperSuperset(mask1, mask2) == mask1 # mask2 /\ BitAnd(mask1, mask2) = mask2

----------------------------------------------------------------------------
(* exhaustive_verify.py: compute_union_size and check_constraints *)

\* sign = 1 if bits % 2 == 1 else -1
SignOf(mask) == IF popcount(mask) % 2 = 1 THEN 1 ELSE -1

RECURSIVE UnionSum(_, _)
UnionSum(s, m) ==
    IF m = 0 THEN 0
    ELSE UnionSum(s, m - 1) + SignOf(m) * (2^(s[m]))

\* Faulty variants of compute_union_size: the signs dropped; the sum off by one.
RECURSIVE UnsignedSum(_, _)
UnsignedSum(s, m) ==
    IF m = 0 THEN 0 ELSE UnsignedSum(s, m - 1) + 2^(s[m])

compute_union_size_unsigned(s, kk) == UnsignedSum(s, 2^kk - 1)

compute_union_size_minus_one(s, kk) == UnionSum(s, 2^kk - 1) - 1

compute_union_size(s, kk) == UnionSum(s, 2^kk - 1)

\* Faulty variant of RegionSign: the two signs exchanged.
RegionSignExchanged(J, K) == IF (popcount(J) - popcount(K)) % 2 = 0 THEN -1 ELSE 1

\* sign = 1 if bits_diff % 2 == 0 else -1
RegionSign(J, K) == IF (popcount(J) - popcount(K)) % 2 = 0 THEN 1 ELSE -1

RECURSIVE RegionSum(_, _, _)
RegionSum(s, K, J) ==
    IF J = 0 THEN 0
    ELSE RegionSum(s, K, J - 1)
         + (IF BitAnd(J, K) = K THEN RegionSign(J, K) * s[J] ELSE 0)

region_size(s, K, kk) == RegionSum(s, K, 2^kk - 1)

MonotoneCheck(s, kk) ==
    \A mask1 \in get_subset_masks(kk) : \A mask2 \in get_subset_masks(kk) :
        ProperSuperset(mask1, mask2) => ~(s[mask1] > s[mask2])

RegionCheck(s, kk) ==
    \A K \in get_subset_masks(kk) : ~(region_size(s, K, kk) < 0)

check_constraints(s, kk) == MonotoneCheck(s, kk) /\ RegionCheck(s, kk)

----------------------------------------------------------------------------
(* exhaustive_verify.py: exhaustive_search as a state machine.  One step    *)
(* per fetch of the outer iterator (line 89) and of the inner one (120).    *)

\* The number of tuples of itertools.product over ranges of the given
\* lengths, from coordinate j on.
RECURSIVE ProductFrom(_, _)
ProductFrom(radices, j) ==
    IF j > Len(radices) THEN 1
    ELSE radices[j] * ProductFrom(radices, j + 1)

ProductSize(radices) == ProductFrom(radices, 1)

\* The tuple itertools.product yields at position i: the last coordinate
\* varies fastest.
ProductAt(i, radices) ==
    [j \in 1 .. Len(radices) |->
        (i \div ProductFrom(radices, j + 1)) % radices[j]]

\* max_size = n.bit_length() - 1 if n > 0 else 0, when max_size is None
DefaultMaxSize(nn) == IF nn > 0 THEN bit_length(nn) - 1 ELSE 0

\* product(range(max_size + 1), repeat=k)
SingletonRadices(kk, ms) == [j \in 1 .. kk |-> ms + 1]

\* all(singleton_sizes[i] >= singleton_sizes[i+1] for i in range(k-1))
SymmetryOk(t, kk) == \A i \in 1 .. (kk - 1) : t[i] >= t[i + 1]

\* sizes = [0] * num_masks, then sizes[mask - 1] = singleton_sizes[i]
InitialSizes(t, kk) ==
    [m \in get_subset_masks(kk) |->
        IF m \in singleton_masks(kk)
        THEN t[(CHOOSE i \in 0 .. (kk - 1) : 2^i = m) + 1]
        ELSE 0]

\* non_singleton_masks, ascending
RECURSIVE NonSingletonFrom(_, _)
NonSingletonFrom(m, kk) ==
    IF m > 2^kk - 1 THEN <<>>
    ELSE (IF m \in singleton_masks(kk) THEN <<>> ELSE <<m>>)
         \o NonSingletonFrom(m + 1, kk)

non_singleton_masks(kk) == NonSingletonFrom(1, kk)

\* max_val = max_size, lowered to sizes[submask - 1] for every proper submask
max_val(mask, s, ms) ==
    LET below == { s[submask] : submask \in { x \in 1 .. Len(s) : ProperSuperset(mask, x) } }
        cands == below \cup {ms}
    IN  CHOOSE v \in cands : \A w \in cands : v <= w

\* ranges: range(max_val + 1) for every non-singleton mask, read off the
\* sizes array as it stands when the ranges are built
Ranges(s, kk, ms) ==
    LET nsm == non_singleton_masks(kk)
    IN  [j \in 1 .. Len(nsm) |-> max_val(nsm[j], s, ms) + 1]

\* sizes[mask - 1] = intersection_sizes[i]
FillSizes(s, t, kk) ==
    LET nsm == non_singleton_masks(kk)
    IN  [m \in get_subset_masks(kk) |->
            IF m \in singleton_masks(kk) THEN s[m]
            ELSE t[CHOOSE j \in 1 .. Len(nsm) : nsm[j] = m]]

\* Faulty variant of NextCount: the candidate is not counted.
NextCountForgotten(c) == c

\* count += 1
NextCount(c) == c + 1

Begin ==
    /\ pc = "start"
    /\ max_size' = IF max_size_arg = <<>> THEN DefaultMaxSize(n) ELSE max_size_arg[1]
    /\ count' = 0
    /\ outer_i' = 0
    /\ pc' = "outer"
    /\ UNCHANGED <<n, k, max_size_arg, singleton_sizes, ranges, inner_i,
                   intersection_sizes, sizes, result>>
    /\ UNCHANGED <<verifierVars, parseVars, sweepVars>>

\* line 89 yields a tuple that fails the symmetry breaking: continue
SkipSingletons ==
    /\ pc = "outer"
    /\ outer_i < ProductSize(SingletonRadices(k, max_size))
    /\ LET t == ProductAt(outer_i, SingletonRadices(k, max_size))
       IN  /\ ~SymmetryOk(t, k)
           /\ singleton_sizes' = t
    /\ outer_i' = outer_i + 1
    /\ UNCHANGED <<n, k, max_size_arg, max_size, pc, ranges, inner_i,
                   intersection_sizes, sizes, count, result>>
    /\ UNCHANGED <<verifierVars, parseVars, sweepVars>>

\* line 89 yields an ordered tuple: lines 95-118 build sizes and ranges
EnterSingletons ==
    /\ pc = "outer"
    /\ outer_i < ProductSize(SingletonRadices(k, max_size))
    /\ LET t == ProductAt(outer_i, SingletonRadices(k, max_size))
       IN  /\ SymmetryOk(t, k)
           /\ singleton_sizes' = t
           /\ sizes' = InitialSizes(t, k)
           /\ ranges' = Ranges(InitialSizes(t, k), k, max_size)
    /\ outer_i' = outer_i + 1
    /\ inner_i' = 0
    /\ pc' = "inner"
    /\ UNCHANGED <<n, k, max_size_arg, max_size, intersection_sizes, count, result>>
    /\ UNCHANGED <<verifierVars, parseVars, sweepVars>>

\* line 120 yields a candidate: lines 121-131 count it and fill it in
FetchCandidate ==
    /\ pc = "inner"
    /\ inner_i < ProductSize(ranges)
    /\ intersection_sizes' = ProductAt(inner_i, ranges)
    /\ inner_i' = inner_i + 1
    /\ count' = NextCount(count)
    /\ sizes' = FillSizes(sizes, ProductAt(inner_i, ranges), k)
    /\ pc' = "check"
    /\ UNCHANGED <<n, k, max_size_arg, max_size, outer_i, singleton_sizes, ranges, result>>
    /\ UNCHANGED <<verifierVars, parseVars, sweepVars>>

\* lines 134-135: the candidate fails check_constraints: continue
RejectCandidate ==
    /\ pc = "check"
    /\ ~check_constraints(sizes, k)
    /\ pc' = "inner"
    /\ UNCHANGED <<n, k, max_size_arg, max_size, outer_i, singleton_sizes, ranges,
                   inner_i, intersection_sizes, sizes, count, result>>
    /\ UNCHANGED <<verifierVars, parseVars, sweepVars>>

\* lines 138-140: the union size differs from n
WrongUnionSize ==
    /\ pc = "check"
    /\ check_constraints(sizes, k)
    /\ compute_union_size(sizes, k) # n
    /\ pc' = "inner"
    /\ UNCHANGED <<n, k, max_size_arg, max_size, outer_i, singleton_sizes, ranges,
                   inner_i, intersection_sizes, sizes, count, result>>
    /\ UNCHANGED <<verifierVars, parseVars, sweepVars>>

\* lines 140-148: return True
ReturnFeasible ==
    /\ pc = "check"
    /\ check_constraints(sizes, k)
    /\ compute_union_size(sizes, k) = n
    /\ result' = TRUE
    /\ pc' = "done"
    /\ UNCHANGED <<n, k, max_size_arg, max_size, outer_i, singleton_sizes, ranges,
                   inner_i, intersection_sizes, sizes, count>>
    /\ UNCHANGED <<verifierVars, parseVars, sweepVars>>

\* the inner product is exhausted: back to line 89
InnerExhausted ==
    /\ pc = "inner"
    /\ inner_i = ProductSize(ranges)
    /\ pc' = "outer"
    /\ UNCHANGED <<n, k, max_size_arg, max_size, outer_i, singleton_sizes, ranges,
                   inner_i, intersection_sizes, sizes, count, result>>
    /\ UNCHANGED <<verifierVars, parseVars, sweepVars>>

\* the outer product is exhausted: lines 150-154 return False
ReturnInfeasible ==
    /\ pc = "outer"
    /\ outer_i = ProductSize(SingletonRadices(k, max_size))
    /\ result' = FALSE
    /\ pc' = "done"
    /\ UNCHANGED <<n, k, max_size_arg, max_size, outer_i, singleton_sizes, ranges,
                   inner_i, intersection_sizes, sizes, count>>
    /\ UNCHANGED <<verifierVars, parseVars, sweepVars>>

\* Inputs of main(): n, k and the optional max_size (<<>> stands for None).
GridInputs ==
    [n : -1 .. MaxN, k : 0 .. MaxK,
     max_size : {<<>>} \cup {<<c>> : c \in 0 .. MaxSize}]

\* Two larger queries with three sets, one with an explicit ceiling and one
\* with the default ceiling.
DeepInputs ==
    { [n |-> 80, k |-> 3, max_size |-> <<5>>],
      [n |-> 210, k |-> 3, max_size |-> <<>>] }

EngineIdle ==
    /\ n = 0 /\ k = 0 /\ max_size_arg = <<>> /\ max_size = 0 /\ pc = "idle"
    /\ outer_i = 0 /\ singleton_sizes = <<>> /\ ranges = <<>> /\ inner_i = 0
    /\ intersection_sizes = <<>> /\ sizes = <<>> /\ count = 0 /\ result = FALSE

VerifierIdle == vsets = <<>> /\ vpc = "idle" /\ vresult = 0

ParseIdle ==
    /\ file = <<>> /\ ppc = "idle" /\ pn = <<>> /\ pk = <<>>
    /\ psets = <<>> /\ expected_set_id = 1

SweepIdle ==
    /\ spc = "idle" /\ sn = 0 /\ found = <<>> /\ checked = 0
    /\ total_checks = 0 /\ disk = <<>> /\ runs = 0

Init ==
    /\ \E in \in GridInputs \cup DeepInputs :
          /\ n = in.n /\ k = in.k /\ max_size_arg = in.max_size
    /\ max_size = 0 /\ pc = "start" /\ outer_i = 0 /\ singleton_sizes = <<>>
    /\ ranges = <<>> /\ inner_i = 0 /\ intersection_sizes = <<>>
    /\ sizes = <<>> /\ count = 0 /\ result = FALSE
    /\ VerifierIdle /\ ParseIdle /\ SweepIdle

Next ==
    \/ Begin
    \/ SkipSingletons
    \/ EnterSingletons
    \/ FetchCandidate
    \/ RejectCandidate
    \/ WrongUnionSize
    \/ ReturnFeasible
    \/ InnerExhausted
    \/ ReturnInfeasible

Spec == Init /\ [][Next]_vars

\* The loop has no suspension point (section 5): a step that can be taken
\* is taken.  Termination is checked on the grid of inputs.
LiveInit == Init /\ [n |-> n, k |-> k, max_size |-> max_size_arg] \in GridInputs

LiveSpec == LiveInit /\ [][Next]_vars /\ WF_vars(Next)

----------------------------------------------------------------------------
(* cpsat_solver.py: the constraint system alpha_leq_k builds.  CP-SAT runs  *)
(* without a time limit, so its verdict is whether the system has a         *)
(* solution.                                                                *)

max_slack_bits == 4

\* M = min(n.bit_length() + max_slack_bits, 60)
SolverBound(nn) == Min(bit_length(nn) + max_slack_bits, 60)

\* d in 0..M, y = 2^d in 1..2^M, monotonicity, regions >= 0, ordered
\* singletons, inclusion-exclusion sum = n
SolverConstraints(d, nn, kk) ==
    LET M == SolverBound(nn)
        masks == get_subset_masks(kk)
    IN  /\ \A mask \in masks : d[mask] \in 0 .. M
        /\ \A mask \in masks : 2^(d[mask]) \in 1 .. 2^M
        /\ \A mask1 \in masks : \A mask2 \in masks :
              ProperSuperset(mask1, mask2) => d[mask1] <= d[mask2]
        /\ \A K \in masks : RegionSum(d, K, 2^kk - 1) >= 0
        /\ \A i \in 0 .. (kk - 2) : d[2^i] >= d[2^(i + 1)]
        /\ UnionSum(d, 2^kk - 1) = nn

\* The search assigns the masks in ascending order; a mask's domain is cut
\* to the values the monotonicity and ordering constraints leave it.
SolverDomain(d, mask, nn, kk) ==
    LET ub == max_val(mask, d, SolverBound(nn))
    IN  IF mask \in singleton_masks(kk) /\ mask > 1
        THEN 0 .. Min(ub, d[mask \div 2])
        ELSE 0 .. ub

RECURSIVE SolverSearch(_, _, _)
SolverSearch(d, nn, kk) ==
    IF Len(d) = 2^kk - 1 THEN SolverConstraints(d, nn, kk)
    ELSE \E v \in SolverDomain(d, Len(d) + 1, nn, kk) :
            SolverSearch(Append(d, v), nn, kk)

alpha_leq_k(nn, kk) == IF nn <= 0 THEN FALSE ELSE SolverSearch(<<>>, nn, kk)

----------------------------------------------------------------------------
(* adf_verifier.py: compute_union_size(sets) on a list of real sets *)

\* element labels are non-negative integers
Labels == 0 .. (MaxLabels - 1)

\* the intersection of the sets the mask selects, from set i on; <<>> stands
\* for None
RECURSIVE IntersectFrom(_, _, _, _)
IntersectFrom(sets, mask, i, intersection) ==
    IF i >= Len(sets) THEN intersection
    ELSE IntersectFrom(sets, mask, i + 1,
            IF BitAnd(mask, 2^i) # 0
            THEN (IF intersection = <<>> THEN <<sets[i + 1]>>
                  ELSE <<intersection[1] \cap sets[i + 1]>>)
            ELSE intersection)

\* intersection_sizes[mask] = len(intersection) if intersection else 0
intersection_size(sets, mask) ==
    LET intersection == IntersectFrom(sets, mask, 0, <<>>)
    IN  IF intersection = <<>> \/ intersection[1] = {} THEN 0
        ELSE Cardinality(intersection[1])

\* Faulty variant of VerifierSign: every term is added.
VerifierSignAlwaysPlus(mask) == 1

\* sign = 1 if bits % 2 == 1 else -1
VerifierSign(mask) == IF popcount(mask) % 2 = 1 THEN 1 ELSE -1

RECURSIVE VerifierSum(_, _)
VerifierSum(sets, mask) ==
    IF mask = 0 THEN 0
    ELSE VerifierSum(sets, mask - 1)
         + VerifierSign(mask) * 2^(intersection_size(sets, mask))

verifier_compute_union_size(sets) ==
    IF Len(sets) = 0 THEN 0 ELSE VerifierSum(sets, 2^Len(sets) - 1)

ComputeUnion ==
    /\ vpc = "start"
    /\ vresult' = verifier_compute_union_size(vsets)
    /\ vpc' = "done"
    /\ UNCHANGED vsets
    /\ UNCHANGED <<engineVars, parseVars, sweepVars>>

VerifierInit ==
    /\ \E len \in 0 .. MaxSets : vsets \in [1 .. len -> SUBSET Labels]
    /\ vpc = "start" /\ vresult = 0
    /\ EngineIdle /\ ParseIdle /\ SweepIdle

VerifierNext == ComputeUnion

VerifierSpec == VerifierInit /\ [][VerifierNext]_vars

----------------------------------------------------------------------------
(* adf_verifier.py: parse_adf.  A line is the list of its whitespace-        *)
(* separated tokens (line.strip().split()); one step per line of the file.  *)

\* the first character of a token, as line.startswith tests it
LeadingChar(tok) ==
    CASE tok \in {"c"} -> "c"
      [] tok \in {"p"} -> "p"
      [] tok \in {"s"} -> "s"
      [] OTHER -> "other"

StartsWith(line, ch) == line # <<>> /\ LeadingChar(line[1]) = ch

\* int(tok): the tokens that are integer literals and their values
IsInt(tok) == tok \in {"-1", "0", "1", "2", "3", "4"}

ToInt(tok) ==
    CASE tok = "-1" -> -1
      [] tok = "0" -> 0
      [] tok = "1" -> 1
      [] tok = "2" -> 2
      [] tok = "3" -> 3
      [] tok = "4" -> 4

\* The lines a file is made of: blank, comment, problem lines (two valid
\* ones, one with n = 0, one without 'alpha', one too short), set lines
\* (ids 1 and 2, an empty set, a missing terminator, a negative element, a
\* non-numeric id) and a line of no known kind.
LineCatalogue ==
    { <<>>,
      <<"c", "x">>,
      <<"p", "alpha", "3", "1">>,
      <<"p", "alpha", "4", "2">>,
      <<"p", "alpha", "0", "1">>,
      <<"p", "beta", "3", "1">>,
      <<"p", "alpha", "3">>,
      <<"s", "1", "1", "2", "0">>,
      <<"s", "2", "2", "0">>,
      <<"s", "1", "0">>,
      <<"s", "2", "1">>,
      <<"s", "1", "-1", "0">>,
      <<"s", "x", "0">>,
      <<"x", "1">> }

\* lines 32-39: the problem line is well formed
ProblemLineOk(parts) ==
    /\ Len(parts) = 4
    /\ parts[2] = "alpha"
    /\ IsInt(parts[3])
    /\ IsInt(parts[4])
    /\ ~(ToInt(parts[3]) <= 0 \/ ToInt(parts[4]) <= 0)

\* Faulty variant of IdMatches: the id of a set line is not compared.
IdMatchesAnything(set_id, expected) == TRUE

\* line 51: set_id != expected_set_id raises
IdMatches(set_id, expected) == set_id = expected

\* parts[2:-1]
Elements(parts) == [j \in 1 .. (Len(parts) - 3) |-> parts[j + 2]]

\* lines 43-63: the set line is well formed
SetLineOk(parts) ==
    /\ pn # <<>> /\ pk # <<>>
    /\ ~(Len(parts) < 3)
    /\ IsInt(parts[2])
    /\ IdMatches(ToInt(parts[2]), expected_set_id)
    /\ parts[Len(parts)] = "0"
    /\ \A j \in 1 .. Len(Elements(parts)) :
          /\ IsInt(Elements(parts)[j])
          /\ ~(ToInt(Elements(parts)[j]) < 0)

\* set(elements)
ElementSet(parts) == { ToInt(Elements(parts)[j]) : j \in 1 .. Len(Elements(parts)) }

parseState == <<pn, pk, psets, expected_set_id>>

\* lines 24-29: empty lines and comment lines are skipped
SkipLine ==
    /\ ppc = "reading" /\ Len(file) < MaxLines
    /\ \E line \in LineCatalogue :
          /\ line = <<>> \/ StartsWith(line, "c")
          /\ file' = Append(file, line)
    /\ UNCHANGED <<ppc, parseState>>
    /\ UNCHANGED <<engineVars, verifierVars, sweepVars>>

\* lines 32-39: a problem line sets n and k
ProblemLine ==
    /\ ppc = "reading" /\ Len(file) < MaxLines
    /\ \E line \in LineCatalogue :
          /\ StartsWith(line, "p")
          /\ ProblemLineOk(line)
          /\ pn' = <<ToInt(line[3])>>
          /\ pk' = <<ToInt(line[4])>>
          /\ file' = Append(file, line)
    /\ UNCHANGED <<ppc, psets, expected_set_id>>
    /\ UNCHANGED <<engineVars, verifierVars, sweepVars>>

\* lines 35, 36-37, 39: a malformed problem line raises
BadProblemLine ==
    /\ ppc = "reading" /\ Len(file) < MaxLines
    /\ \E line \in LineCatalogue :
          /\ StartsWith(line, "p")
          /\ ~ProblemLineOk(line)
          /\ file' = Append(file, line)
    /\ ppc' = "error"
    /\ UNCHANGED parseState
    /\ UNCHANGED <<engineVars, verifierVars, sweepVars>>

\* lines 42-66: a set line appends its set
SetLine ==
    /\ ppc = "reading" /\ Len(file) < MaxLines
    /\ \E line \in LineCatalogue :
          /\ StartsWith(line, "s")
          /\ SetLineOk(line)
          /\ psets' = Append(psets, ElementSet(line))
          /\ file' = Append(file, line)
    /\ expected_set_id' = expected_set_id + 1
    /\ UNCHANGED <<ppc, pn, pk>>
    /\ UNCHANGED <<engineVars, verifierVars, sweepVars>>

\* lines 44, 48, 50, 52, 56, 60, 62: a malformed set line raises
BadSetLine ==
    /\ ppc = "reading" /\ Len(file) < MaxLines
    /\ \E line \in LineCatalogue :
          /\ StartsWith(line, "s")
          /\ ~SetLineOk(line)
          /\ file' = Append(file, line)
    /\ ppc' = "error"
    /\ UNCHANGED parseState
    /\ UNCHANGED <<engineVars, verifierVars, sweepVars>>

\* lines 68-69: any other line raises
UnknownLine ==
    /\ ppc = "reading" /\ Len(file) < MaxLines
    /\ \E line \in LineCatalogue :
          /\ line # <<>>
          /\ ~StartsWith(line, "c") /\ ~StartsWith(line, "p") /\ ~StartsWith(line, "s")
          /\ file' = Append(file, line)
    /\ ppc' = "error"
    /\ UNCHANGED parseState
    /\ UNCHANGED <<engineVars, verifierVars, sweepVars>>

\* lines 72-75: at the end of the file, len(sets) == k: return n, k, sets
ReturnParsed ==
    /\ ppc = "reading"
    /\ ~(<<Len(psets)>> # pk)
    /\ ppc' = "returned"
    /\ UNCHANGED <<file, parseState>>
    /\ UNCHANGED <<engineVars, verifierVars, sweepVars>>

\* lines 72-73: at the end of the file, len(sets) != k raises
WrongSetCount ==
    /\ ppc = "reading"
    /\ <<Len(psets)>> # pk
    /\ ppc' = "error"
    /\ UNCHANGED <<file, parseState>>
    /\ UNCHANGED <<engineVars, verifierVars, sweepVars>>

ParseInit ==
    /\ file = <<>> /\ ppc = "reading" /\ pn = <<>> /\ pk = <<>>
    /\ psets = <<>> /\ expected_set_id = 1
    /\ EngineIdle /\ VerifierIdle /\ SweepIdle

ParseNext ==
    \/ SkipLine
    \/ ProblemLine
    \/ BadProblemLine
    \/ SetLine
    \/ BadSetLine
    \/ UnknownLine
    \/ ReturnParsed
    \/ WrongSetCount

ParseSpec == ParseInit /\ [][ParseNext]_vars

----------------------------------------------------------------------------
(* search_sequential.py: search_range, its progress file and the            *)
(* KeyboardInterrupt handler.  One step per statement of the loop body, so  *)
(* that an interrupt can arrive between any two of them.                    *)

\* alpha_leq_k_fast: the constraint system of alpha_leq_k with the region
\* sizes as variables r in 0..M; hints do not change the verdict
alpha_leq_k_fast(nn, kk) ==
    IF nn <= 0 THEN FALSE
    ELSE \E d \in [get_subset_masks(kk) -> 0 .. SolverBound(nn)] :
            /\ SolverConstraints(d, nn, kk)
            /\ \A K \in get_subset_masks(kk) :
                  RegionSum(d, K, 2^kk - 1) \in 0 .. SolverBound(nn)

\* the arguments of search_range: --k, --start, --end
SweepArgs == [k |-> 1, start_n |-> 1, end_n |-> MaxSweepN]

\* save_progress(k, n, found_list, start_time, total_checks): what is written
ProgressRecord(kk, nn, found_list, checks) ==
    [k |-> kk, last_n_checked |-> nn, found_alpha_gt_k |-> found_list,
     total_checks |-> checks]

\* lines 113-133: load the progress file, if any, and start the loop
LoadProgress ==
    /\ spc = "load"
    /\ IF disk # <<>> /\ disk[1].k = SweepArgs.k
       THEN /\ sn' = disk[1].last_n_checked + 1
            /\ found' = disk[1].found_alpha_gt_k
            /\ total_checks' = disk[1].total_checks
       ELSE /\ sn' = SweepArgs.start_n
            /\ found' = <<>>
            /\ total_checks' = 0
    /\ checked' = 0
    /\ spc' = "test"
    /\ UNCHANGED <<disk, runs>>
    /\ UNCHANGED <<engineVars, verifierVars, parseVars>>

\* lines 137-138: n > end_n: break, the summary is printed
SweepFinished ==
    /\ spc = "test"
    /\ sn > SweepArgs.end_n
    /\ spc' = "finished"
    /\ UNCHANGED <<sn, found, checked, total_checks, disk, runs>>
    /\ UNCHANGED <<engineVars, verifierVars, parseVars>>

\* lines 141-143, 149: the solver finds n feasible
SolveFeasible ==
    /\ spc = "test"
    /\ ~(sn > SweepArgs.end_n)
    /\ alpha_leq_k_fast(sn, SweepArgs.k)
    /\ spc' = "count"
    /\ UNCHANGED <<sn, found, checked, total_checks, disk, runs>>
    /\ UNCHANGED <<engineVars, verifierVars, parseVars>>

\* lines 141-144: the solver finds n infeasible
SolveInfeasible ==
    /\ spc = "test"
    /\ ~(sn > SweepArgs.end_n)
    /\ ~alpha_leq_k_fast(sn, SweepArgs.k)
    /\ spc' = "append"
    /\ UNCHANGED <<sn, found, checked, total_checks, disk, runs>>
    /\ UNCHANGED <<engineVars, verifierVars, parseVars>>

\* line 145: found.append(n)
AppendFound ==
    /\ spc = "append"
    /\ found' = Append(found, sn)
    /\ spc' = "save"
    /\ UNCHANGED <<sn, checked, total_checks, disk, runs>>
    /\ UNCHANGED <<engineVars, verifierVars, parseVars>>

\* line 146: save_progress(k, n, found, start_time, total_checks + checked)
SaveDiscovery ==
    /\ spc = "save"
    /\ disk' = <<ProgressRecord(SweepArgs.k, sn, found, total_checks + checked)>>
    /\ spc' = "count"
    /\ UNCHANGED <<sn, found, checked, total_checks, runs>>
    /\ UNCHANGED <<engineVars, verifierVars, parseVars>>

\* line 151: checked += 1
CountChecked ==
    /\ spc = "count"
    /\ checked' = checked + 1
    /\ spc' = "advance"
    /\ UNCHANGED <<sn, found, total_checks, disk, runs>>
    /\ UNCHANGED <<engineVars, verifierVars, parseVars>>

\* line 152: n += 1
Advance ==
    /\ spc = "advance"
    /\ sn' = sn + 1
    /\ spc' = "timer"
    /\ UNCHANGED <<found, checked, total_checks, disk, runs>>
    /\ UNCHANGED <<engineVars, verifierVars, parseVars>>

\* lines 155-160: more than 30 seconds since the last report: save n - 1
TimerSave ==
    /\ spc = "timer"
    /\ disk' = <<ProgressRecord(SweepArgs.k, sn - 1, found, total_checks + checked)>>
    /\ spc' = "test"
    /\ UNCHANGED <<sn, found, checked, total_checks, runs>>
    /\ UNCHANGED <<engineVars, verifierVars, parseVars>>

\* line 155: no report is due
TimerNotDue ==
    /\ spc = "timer"
    /\ spc' = "test"
    /\ UNCHANGED <<sn, found, checked, total_checks, disk, runs>>
    /\ UNCHANGED <<engineVars, verifierVars, parseVars>>

\* lines 166-170: a KeyboardInterrupt anywhere in the try block saves
\* (k, n - 1, found, total_checks + checked) and returns
Interrupt ==
    /\ spc \in {"test", "append", "save", "count", "advance", "timer"}
    /\ disk' = <<ProgressRecord(SweepArgs.k, sn - 1, found, total_checks + checked)>>
    /\ spc' = "interrupted"
    /\ UNCHANGED <<sn, found, checked, total_checks, runs>>
    /\ UNCHANGED <<engineVars, verifierVars, parseVars>>

\* the script is run again
Restart ==
    /\ spc \in {"interrupted", "finished"}
    /\ runs < MaxRuns
    /\ runs' = runs + 1
    /\ spc' = "load"
    /\ UNCHANGED <<sn, found, checked, total_checks, disk>>
    /\ UNCHANGED <<engineVars, verifierVars, parseVars>>

SweepInit ==
    /\ spc = "load" /\ sn = 0 /\ found = <<>> /\ checked = 0
    /\ total_checks = 0 /\ disk = <<>> /\ runs = 1
    /\ EngineIdle /\ VerifierIdle /\ ParseIdle

SweepNext ==
    \/ LoadProgress
    \/ SweepFinished
    \/ SolveFeasible
    \/ SolveInfeasible
    \/ AppendFound
    \/ SaveDiscovery
    \/ CountChecked
    \/ Advance
    \/ TimerSave
    \/ TimerNotDue
    \/ Interrupt
    \/ Restart

SweepSpec == SweepInit /\ [][SweepNext]_vars

----------------------------------------------------------------------------
(* The lattice constraint model as the specification states it (section 3): *)
(* masks as index sets, the four invariants of an accepted d-vector.        *)

Members(M, kk) == { i \in 1 .. kk : (M \div 2^(i - 1)) % 2 = 1 }

Contains(A, B, kk) == Members(B, kk) \subseteq Members(A, kk)

Parity(x) == IF x % 2 = 0 THEN 1 ELSE -1

RECURSIVE SumOver(_, _)
SumOver(S, f) ==
    IF S = {} THEN 0
    ELSE LET x == CHOOSE y \in S : TRUE
         IN  f[x] + SumOver(S \ {x}, f)

Region(d, K, kk) ==
    LET above == { J \in get_subset_masks(kk) : Contains(J, K, kk) }
    IN  SumOver(above,
            [J \in above |->
                Parity(Cardinality(Members(J, kk)) - Cardinality(Members(K, kk))) * d[J]])

Signature(d, kk) ==
    SumOver(get_subset_masks(kk),
            [M \in get_subset_masks(kk) |->
                Parity(Cardinality(Members(M, kk)) + 1) * 2^(d[M])])

Monotone(d, kk) ==
    \A A \in get_subset_masks(kk) : \A B \in get_subset_masks(kk) :
        Contains(A, B, kk) => d[A] <= d[B]

RegionsNonNegative(d, kk) == \A K \in get_subset_masks(kk) : Region(d, K, kk) >= 0

SingletonsOrdered(d, kk) == \A i \in 1 .. (kk - 1) : d[2^(i - 1)] >= d[2^i]

FourInvariants(d, kk, nn) ==
    /\ SingletonsOrdered(d, kk)
    /\ Signature(d, kk) = nn
    /\ Monotone(d, kk)
    /\ RegionsNonNegative(d, kk)

----------------------------------------------------------------------------
(* Claims about exhaustive_search *)

\* C1: for n > 0, k >= 1 and ceiling c >= 0, exhaustive_search returns False
\* only if no vector over the masks with entries in 0..c satisfies the four
\* invariants with target n.
C1_CompleteUnderCeiling ==
    (pc = "done" /\ n > 0 /\ k >= 1 /\ ~result)
        => ~ \E d \in [get_subset_masks(k) -> 0 .. max_size] : FourInvariants(d, k, n)

\* C2: whenever exhaustive_search returns True, the sizes it holds satisfy
\* monotonicity, region non-negativity, the singleton order and the target
\* equation.
C2_FeasibleSatisfiesInvariants ==
    (pc = "done" /\ result) => FourInvariants(sizes, k, n)

C2_Witness ==
    pc = "done" /\ result /\ n = 6 /\ k = 2 /\ sizes = <<2, 2, 1>>

\* C4: exhaustive_search called with n <= 0 or k = 0 returns False with the
\* candidate counter still 0.
C4_RejectsDegenerateInput ==
    (pc = "done" /\ (n <= 0 \/ k = 0)) => (~result /\ count = 0)

\* C5: for n > 0 and k >= 1, exhaustive_search with its default ceiling
\* returns True exactly when the constraint system of alpha_leq_k(n, k) has a
\* solution.
C5_SameVerdictAsSolver ==
    (pc = "done" /\ n > 0 /\ k >= 1 /\ max_size_arg = <<>>)
        => (result <=> alpha_leq_k(n, k))

\* C8: for n > 0, k >= 1 and a finite ceiling, exhaustive_search terminates,
\* and when it returns False it has examined at least one candidate.
C8_TerminatesWithCount ==
    (n > 0 /\ k >= 1) ~> (pc = "done" /\ (result \/ count >= 1))

C8_Witness ==
    pc = "done" /\ ~result /\ n = 3 /\ k = 1 /\ max_size_arg = <<1>> /\ count = 2

\* C10 as stated: for k = 1 and n = 3 the engine returns True with
\* d[{1}] = 2.
C10_ThreeIsFeasible ==
    (pc = "done" /\ k = 1 /\ n = 3) => (result /\ sizes[1] = 2)

\* C10 amended: for k = 1 and n = 3 the engine returns False under every
\* ceiling; d[{1}] = 2 is the witness it returns for k = 1 and n = 4 under
\* every ceiling of at least 2.
C10_ThreeIsInfeasible ==
    (pc = "done" /\ k = 1)
        => /\ (n = 3 => ~result)
           /\ (n = 4 /\ max_size >= 2 => result /\ sizes[1] = 2)

C10_Witness ==
    pc = "done" /\ k = 1 /\ n = 3 /\ max_size_arg = <<>> /\ ~result /\ count = 2

\* the vectors with entries in 0..c whose singleton sizes are non-increasing
\* and in which no mask is larger than any of its proper submasks
MonotoneCandidates(kk, c) ==
    { d \in [get_subset_masks(kk) -> 0 .. c] : SingletonsOrdered(d, kk) /\ Monotone(d, kk) }

\* C11: the vectors exhaustive_search(n, k, c) examines are exactly the
\* vectors with entries in 0..c, non-increasing singleton sizes and every
\* mask at most the minimum of its proper submasks: every examined vector is
\* one of them, and a search that ends without a witness has examined each
\* of them, so it has counted at least as many candidates as there are.
C11_ExaminesMonotoneCandidates ==
    /\ pc = "check" => sizes \in MonotoneCandidates(k, max_size)
    /\ (pc = "done" /\ ~result) => count >= Cardinality(MonotoneCandidates(k, max_size))

\* the half of C11 that the code keeps: every examined vector has entries in
\* 0..c, non-increasing singleton sizes and no mask above a proper submask
C11_ExaminedAreMonotone ==
    pc = "check" => sizes \in MonotoneCandidates(k, max_size)

----------------------------------------------------------------------------
(* Claims about the decomposition verifier *)

\* the literal union of the power sets of the listed sets
PowerSetUnion(sets) == UNION { SUBSET sets[i] : i \in 1 .. Len(sets) }

\* C3: for every list of sets, the verifier's compute_union_size equals the
\* number of distinct subsets in the union of the power sets of the sets.
C3_UnionSizeIsPowerSetUnion ==
    vpc = "done" => vresult = Cardinality(PowerSetUnion(vsets))

C3_Witness ==
    vpc = "done" /\ vsets = <<{0, 1}, {1, 2}, {0, 2}>> /\ vresult = 7

\* the elements common to the sets indexed by a nonempty mask
CommonElements(sets, mask) ==
    { x \in UNION { sets[i] : i \in 1 .. Len(sets) } :
        \A i \in Members(mask, Len(sets)) : x \in sets[i] }

\* the size vector of a list of sets: d[mask] is the cardinality of the
\* intersection of the sets indexed by mask
RECURSIVE GroundSizesUpTo(_, _)
GroundSizesUpTo(sets, mask) ==
    IF mask = 0 THEN <<>>
    ELSE Append(GroundSizesUpTo(sets, mask - 1), Cardinality(CommonElements(sets, mask)))

GroundSizes(sets) == GroundSizesUpTo(sets, 2^Len(sets) - 1)

\* C12: for every list of k finite sets, the vector of the cardinalities of
\* their intersections passes check_constraints, and the engine's
\* compute_union_size of that vector equals the verifier's compute_union_size
\* of the sets.
C12_LatticeAgreesWithGroundTruth ==
    vpc = "done"
        => LET d == GroundSizes(vsets)
           IN  /\ compute_union_size(d, Len(vsets)) = vresult
               /\ check_constraints(d, Len(vsets))

C12_Witness ==
    /\ vpc = "done" /\ vsets = <<{0, 1}, {1}, {1, 2}>>
    /\ GroundSizes(vsets) = <<2, 1, 1, 2, 1, 1, 1>>
    /\ vresult = 6

----------------------------------------------------------------------------
(* Claims about parse_adf *)

IsProblemLine(line) == line # <<>> /\ line[1] = "p"

IsSetLine(line) == line # <<>> /\ line[1] = "s"

ProblemLineCount == Cardinality({ i \in 1 .. Len(file) : IsProblemLine(file[i]) })

ProblemLineAfterSetLine ==
    \E i \in 1 .. Len(file) : \E j \in 1 .. Len(file) :
        i < j /\ IsSetLine(file[i]) /\ IsProblemLine(file[j])

\* C6: parse_adf returns (n, k, sets) only for a file with exactly one
\* problem line, which precedes every set line.
C6_SingleProblemLineFirst ==
    ppc = "returned" => (ProblemLineCount = 1 /\ ~ProblemLineAfterSetLine)

\* the ids of the file's set lines, in file order
RECURSIVE SetIdsFrom(_)
SetIdsFrom(i) ==
    IF i > Len(file) THEN <<>>
    ELSE (IF IsSetLine(file[i]) THEN <<ToInt(file[i][2])>> ELSE <<>>) \o SetIdsFrom(i + 1)

SetLineIds == SetIdsFrom(1)

\* C7: parse_adf returns (n, k, sets) only if the ids of the set lines, in
\* file order, are exactly 1, 2, ..., k for the k it returns.
C7_SetIdsSequential ==
    ppc = "returned" => SetLineIds = [i \in 1 .. pk[1] |-> i]

C7_Witness ==
    /\ ppc = "returned" /\ pk = <<2>>
    /\ file = << <<"p", "alpha", "4", "2">>, <<"s", "1", "0">>, <<"s", "2", "2", "0">> >>
    /\ psets = << {}, {2} >>

----------------------------------------------------------------------------
(* Claims about search_range *)

Occurrences(seq, v) == Cardinality({ i \in 1 .. Len(seq) : seq[i] = v })

\* C9: whenever a run of search_range has stopped (interrupted or finished),
\* the progress file records every n up to last_n_checked that the solver
\* found infeasible exactly once, and records no other value.
C9_ProgressConsistent ==
    (spc \in {"interrupted", "finished"} /\ disk # <<>>)
        => LET last == disk[1].last_n_checked
               rec == disk[1].found_alpha_gt_k
           IN  /\ \A v \in SweepArgs.start_n .. last :
                     ~alpha_leq_k_fast(v, SweepArgs.k) => Occurrences(rec, v) = 1
               /\ \A i \in 1 .. Len(rec) :
                     /\ rec[i] <= last
                     /\ Occurrences(rec, rec[i]) = 1

====
